---- MODULE Spec2Model ----
(***************************************************************************)
(* The video moderation pipeline of backend/src/socket.ts (processVideo    *)
(* and its helpers) and the reprocess request of                           *)
(* backend/src/controllers/video.controller.ts, as a state machine over    *)
(* one Video record, the files of that video on disk, and the runs of      *)
(* processVideo started for it.                                            *)
(*                                                                         *)
(* Numbers.  Scores are integers in units of 1/10000 (the precision of     *)
(* toFixed(4)); an unrounded weighted score is the exact fraction num/den  *)
(* of such units.  Timestamps are integers in units of 1/100 s (the        *)
(* precision of toFixed(2)).  Binary floating-point error is not modelled. *)
(***************************************************************************)
EXTENDS Integers, Sequences, FiniteSets, TLC

(***************************************************************************)
(* Bounds of the model.                                                    *)
(***************************************************************************)
\* Longest video (seconds) whose runs are explored.
MaxDuration == 4
\* Longest video (seconds) whose reruns after a reprocess request are explored.
MaxRerunDuration == 1
\* Runs of processVideo that may exist at once for the video.
MaxRuns == 2
\* Longest list of frame scores the classification stage is explored on.
MaxScores == 6

(***************************************************************************)
(* Program constants.                                                      *)
(***************************************************************************)
\* toFixed(4): four decimals.
Scale == 10000
\* const BATCH_SIZE = 4
BATCH_SIZE == 4

NoScore == 0 - 1
NoText == "null"

Min(a, b) == IF a <= b THEN a ELSE b
Max(a, b) == IF a >= b THEN a ELSE b

(***************************************************************************)
(* Array helpers (Array.prototype.reduce / Math.max / sort / slice).       *)
(***************************************************************************)
RECURSIVE SeqSum(_)
SeqSum(s) == IF s = <<>> THEN 0 ELSE Head(s) + SeqSum(Tail(s))

RECURSIVE SeqMax(_)
SeqMax(s) == IF Len(s) = 1 THEN Head(s) ELSE Max(Head(s), SeqMax(Tail(s)))

RECURSIVE InsertDesc(_, _)
InsertDesc(x, s) ==
    IF s = <<>> THEN <<x>>
    ELSE IF x >= Head(s) THEN <<x>> \o s
    ELSE <<Head(s)>> \o InsertDesc(x, Tail(s))

\* [...scores].sort((a, b) => b - a)
RECURSIVE SortDesc(_)
SortDesc(s) == IF s = <<>> THEN <<>> ELSE InsertDesc(Head(s), SortDesc(Tail(s)))

\* allTimestamps.sort((a, b) => a - b)
SortAsc(s) ==
    LET n == Len(s)
        rank == SubSeq([i \in 1..n |->
                          Cardinality({j \in 1..n :
                                         s[j] < s[i] \/ (s[j] = s[i] /\ j < i)}) + 1],
                       1, n)
    IN  [k \in 1..n |-> s[CHOOSE i \in 1..n : rank[i] = k]]

\* sorted.slice(0, k)
Slice(s, k) == SubSeq(s, 1, Min(k, Len(s)))

\* x.toFixed(4) of the exact value num/den (num >= 0, den > 0): the nearest
\* multiple of 1/10000, the larger one on a tie.
ToFixed4(num, den) == (2 * num + den) \div (2 * den)

(***************************************************************************)
(* Stage 4: scores and flags.                                              *)
(***************************************************************************)
\* The slice of the five highest scores (Top5All: the slice forgotten).
Top5All(sorted) == sorted
Top5(sorted) == Slice(sorted, Min(5, Len(sorted)))

\* weighted = max * 0.6 + top5Avg * 0.25 + avg * 0.15, as the fraction num/den.
\* (WeightedNumLight: 40% written for the 60% of the maximum.)
WeightedNumLight(max, sum5, k5, sum, n) == 40 * max * k5 * n + 25 * sum5 * n + 15 * sum * k5
WeightedNum(max, sum5, k5, sum, n) == 60 * max * k5 * n + 25 * sum5 * n + 15 * sum * k5

computeCategoryScore(scores) ==
    IF Len(scores) = 0 THEN [max |-> 0, num |-> 0, den |-> 1]
    ELSE LET max == SeqMax(scores)
             n == Len(scores)
             sum == SeqSum(scores)
             top5 == Top5(SortDesc(scores))
             k5 == Len(top5)
             sum5 == SeqSum(top5)
         IN  [max |-> max,
              num |-> WeightedNum(max, sum5, k5, sum, n),
              den |-> 100 * k5 * n]

\* adultFlagged: weighted > 0.4 || max > 0.7 || filter(s > 0.4).length >= 2
\* (adultFlaggedNoCount: the third test forgotten).
adultFlaggedNoCount(scores) ==
    LET st == computeCategoryScore(scores)
    IN  \/ 10 * st.num > 4 * Scale * st.den
        \/ 10 * st.max > 7 * Scale
adultFlagged(scores) ==
    LET st == computeCategoryScore(scores)
    IN  \/ 10 * st.num > 4 * Scale * st.den
        \/ 10 * st.max > 7 * Scale
        \/ Len(SelectSeq(scores, LAMBDA s : 10 * s > 4 * Scale)) >= 2

\* languageFlagged: languageScore > 0.15
\* (languageFlaggedLoose: the threshold of 0.6 written for 0.15.)
languageFlaggedLoose(languageScore) == 100 * languageScore > 60 * Scale
languageFlagged(languageScore) == 100 * languageScore > 15 * Scale

\* sensitivityScores.adult / .language and overallScore
adultDetail(scores) ==
    LET st == computeCategoryScore(scores) IN ToFixed4(st.num, st.den)
languageDetail(languageScore) == ToFixed4(languageScore, 1)
\* (overallScoreMin: Math.min written for Math.max.)
overallScoreMin(adult, language) == ToFixed4(Min(adult, language), 1)
overallScore(adult, language) == ToFixed4(Max(adult, language), 1)

sensitivityClassification(scores, languageScore) ==
    IF adultFlagged(scores) \/ languageFlagged(languageScore)
    THEN "flagged" ELSE "safe"

(***************************************************************************)
(* Frame sampler: the timestamps of extractFrames.                         *)
(***************************************************************************)
\* The sampling interval (seconds) for a duration (seconds).
\* The interval table (IntervalBelow: the second row written with <).
IntervalBelow(duration) ==
    IF duration <= 15 THEN 1
    ELSE IF duration < 30 THEN 2
    ELSE IF duration <= 120 THEN 3
    ELSE IF duration <= 600 THEN 4
    ELSE IF duration <= 1800 THEN 6
    ELSE 8
Interval(duration) ==
    IF duration <= 15 THEN 1
    ELSE IF duration <= 30 THEN 2
    ELSE IF duration <= 120 THEN 3
    ELSE IF duration <= 600 THEN 4
    ELSE IF duration <= 1800 THEN 6
    ELSE 8

\* for (let t = 0.5; t < duration; t += interval) push(t), in 1/100 s.
RegularFrom(t, duration, interval) ==
    LET n == Cardinality({k \in 0..duration : t + 100 * interval * k < 100 * duration})
    IN  [k \in 1..n |-> t + 100 * interval * (k - 1)]

regularTimestamps(duration) ==
    LET reg == RegularFrom(50, duration, Interval(duration))
    IN  IF Len(reg) = 0 /\ duration > 0
        THEN <<100 * (duration \div 2)>>
        ELSE reg

\* detectSceneChanges: the pts_time values ffmpeg prints (1/1000 s), kept when
\* 0 < t < duration and rounded by toFixed(2).
sceneTimestamps(pts, duration) ==
    LET kept == SelectSeq(pts, LAMBDA t : t > 0 /\ t < 1000 * duration)
    IN  [i \in 1..Len(kept) |-> (kept[i] + 5) \div 10]

Abs(x) == IF x < 0 THEN 0 - x ELSE x

\* The merge loop: a scene timestamp is pushed unless some timestamp already
\* in allTimestamps is closer than 0.5 s.
\* (MergeSceneRegular: a scene timestamp is compared with the regular
\* timestamps only; MergeSceneWithin: <= 0.5 written for < 0.5.)
RECURSIVE MergeSceneWithin(_, _)
MergeSceneWithin(all, scene) ==
    IF scene = <<>> THEN all
    ELSE LET st == Head(scene)
             tooClose == \E i \in 1..Len(all) : Abs(all[i] - st) <= 50
         IN  MergeSceneWithin(IF tooClose THEN all ELSE Append(all, st), Tail(scene))
MergeSceneRegular(all, scene) ==
    all \o SelectSeq(scene, LAMBDA st : ~ \E i \in 1..Len(all) : Abs(all[i] - st) < 50)
RECURSIVE MergeScene(_, _)
MergeScene(all, scene) ==
    IF scene = <<>> THEN all
    ELSE LET st == Head(scene)
             tooClose == \E i \in 1..Len(all) : Abs(all[i] - st) < 50
         IN  MergeScene(IF tooClose THEN all ELSE Append(all, st), Tail(scene))

allTimestamps(duration, scene) ==
    SortAsc(MergeScene(regularTimestamps(duration), scene))

(***************************************************************************)
(* Audio analyser: the score of a transcript with `profane` profane tokens *)
(* out of `total` whitespace-separated tokens.                             *)
(***************************************************************************)
languageScoreOf(profane, total) ==
    IF total = 0 THEN 0
    ELSE Min(ToFixed4(3 * profane * Scale, total), Scale)

(***************************************************************************)
(* State.                                                                  *)
(*   file  the uploaded source file: whether it is on disk, its duration   *)
(*         and the pts_time values scene detection prints for it           *)
(*   db    the persisted Video record (the pipeline's fields)              *)
(*   disk  the files the pipeline creates: the frames directory of the     *)
(*         video, its content, and the thumbnail                           *)
(*   run   the runs of processVideo: each one's position, its in-memory    *)
(*         document `video` with the paths modified since the last save,   *)
(*         its locals, and records of its history: whether reprocessVideo  *)
(*         started it, how its audio stage ended, the log of what it       *)
(*         persisted and published, the paths it has assigned (touched),   *)
(*         and the record a run of the same steps leaves when it starts    *)
(*         from a newly created record (fresh)                             *)
(***************************************************************************)
VARIABLES file, db, disk, run, io, api

vars == <<file, db, disk, run, io, api>>

Slots == 1..MaxRuns

\* Defaults of the Video schema.
NewVideo ==
    [status |-> "pending", progress |-> 0, error |-> NoText,
     classification |-> "unprocessed", score |-> NoScore,
     adult |-> 0, language |-> 0,
     isStreamReady |-> FALSE, thumbnailPath |-> NoText]

Fields == DOMAIN NewVideo

\* let video = null; let framePaths = []; let framesDir = ""
NewRun ==
    [pc |-> "idle", loaded |-> FALSE, doc |-> NewVideo, dirty |-> {},
     framePaths |-> <<>>, frameResults |-> <<>>, batchStart |-> 0,
     languageScore |-> 0, audio |-> "unset", message |-> NoText,
     rerun |-> FALSE, log |-> <<>>, touched |-> {}, fresh |-> NewVideo,
     inFlight |-> {},
     regularTimestamps |-> <<>>, sceneTimestamps |-> <<>>, allTimestamps |-> <<>>]

Active(rn) == rn.pc \notin {"idle", "completed", "failed", "stopped"}

\* Scores the image classifier returns in a run, and transcripts
\* (profane tokens, tokens) the speech service returns.
FrameScores == {0, 9000}
Transcripts == {<<0, 0>>, <<1, 5>>}
\* pts_time outputs of scene detection (1/1000 s).
PtsChoices == {<<>>, <<1000>>}
\* Scores and language scores the classification stage is explored on.
ScoreSet == {0, 4000, 4100, 8000}
LangSet == {0, 1500, 6000}

(***************************************************************************)
(* The document: assignments mark a path modified when the value changes;  *)
(* save() writes the modified paths and clears the marks.                  *)
(***************************************************************************)
Assign(rn, f, v) ==
    [rn EXCEPT !.doc[f] = v,
               !.dirty = IF rn.doc[f] = v THEN @ ELSE @ \cup {f},
               !.touched = @ \cup {f}]

SaveWrites(rn, d) == [f \in Fields |-> IF f \in rn.dirty THEN rn.doc[f] ELSE d[f]]

\* One entry of a run's log: a write of the record, or an event emitted to
\* a room.
Entry(op, room, kind, v) ==
    [op |-> op, room |-> room, kind |-> kind, status |-> v.status,
     progress |-> v.progress, error |-> v.error,
     classification |-> v.classification, score |-> v.score,
     adult |-> v.adult, language |-> v.language]

Blank == [NewVideo EXCEPT !.status = NoText, !.progress = NoScore,
                          !.classification = NoText, !.adult = NoScore,
                          !.language = NoScore]

\* What the same save leaves in a record that was newly created when the run
\* loaded it: the assigned paths over the schema defaults.
FreshWrites(rn) ==
    [f \in Fields |-> IF f \in rn.touched THEN rn.doc[f] ELSE NewVideo[f]]

\* await video.save(), resolved.
Saved(rn, d) ==
    [rn EXCEPT !.dirty = {},
               !.log = Append(@, Entry("save", "db", "write", SaveWrites(rn, d))),
               !.fresh = FreshWrites(rn)]

\* emitProgress / emitComplete / emitError: first to video:<id>, then to
\* user:<owner>.
Emit(rn, kind, v) ==
    [rn EXCEPT !.log = @ \o <<Entry("emit", "video", kind, v),
                              Entry("emit", "user", kind, v)>>]

emitProgress(rn, progress) ==
    Emit(rn, "progress", [Blank EXCEPT !.status = "processing", !.progress = progress])

emitComplete(rn) ==
    Emit(rn, "complete",
         [Blank EXCEPT !.status = rn.doc.status, !.progress = 100,
                       !.classification = rn.doc.classification,
                       !.score = rn.doc.score, !.adult = rn.doc.adult,
                       !.language = rn.doc.language])

emitError(rn, message) == Emit(rn, "error", [Blank EXCEPT !.error = message])

\* updateProgress up to its await: the two assignments.
SetProgress(rn, progress) ==
    Assign(Assign(rn, "status", "processing"), "progress", progress)

\* updateProgress after its await resolved: the event (ProgressedUnsaved: the
\* event emitted without awaiting the save).
ProgressedUnsaved(rn, d) == emitProgress(rn, rn.doc.progress)
Progressed(rn, d) == emitProgress(Saved(rn, d), rn.doc.progress)

\* cleanupFrames: unlink every frame path that exists, then remove the
\* directory when it exists and is empty.
cleanupFrames(dk, framePaths) ==
    LET left == dk.frames \ {framePaths[i] : i \in 1..Len(framePaths)}
    IN  [dk EXCEPT !.frames = left,
                   !.dir = IF dk.dir /\ left = {} /\ dk.audio = "none"
                           THEN FALSE ELSE dk.dir]

\* The catch block up to its await: cleanup, then the failure fields.
CatchDisk(rn, dk) ==
    IF Len(rn.framePaths) > 0 THEN cleanupFrames(dk, rn.framePaths) ELSE dk

Catch(rn, message) ==
    IF rn.loaded
    THEN [Assign(Assign(rn, "status", "failed"), "error", message)
            EXCEPT !.pc = "saveFailed", !.message = message]
    ELSE [rn EXCEPT !.pc = "stopped", !.message = message]

(***************************************************************************)
(* Init: uploadVideo has created the record and started the first run.     *)
(***************************************************************************)
(***************************************************************************)
(* The socket server: io holds, per socket, the user it authenticated as,  *)
(* the rooms it is in and the events delivered to it, and the number of    *)
(* emit calls so far.  asked[s] is the client's side: the videos socket s  *)
(* asked to subscribe to and has not unsubscribed from.                    *)
(***************************************************************************)
MaxEvents == 2
Sockets == {"s1", "s2"}
Users == {"owner", "viewer"}
Videos == {"v1", "v2"}

NoSockets ==
    [connected |-> {}, user |-> [s \in Sockets |-> "none"],
     rooms |-> [s \in Sockets |-> {}], asked |-> [s \in Sockets |-> {}],
     received |-> [s \in Sockets |-> <<>>], emitted |-> 0]

(***************************************************************************)
(* The video routes: api.video is the stored record's ownership and        *)
(* metadata (exists: the record is in the store), api.user the requester   *)
(* of the last request and api.status the status of its response.          *)
(***************************************************************************)
Requesters ==
    {[id |-> "u1", role |-> "editor", organisation |-> "orgA"],
     [id |-> "u2", role |-> "editor", organisation |-> "orgA"],
     [id |-> "u3", role |-> "admin", organisation |-> "orgA"],
     [id |-> "u4", role |-> "admin", organisation |-> "orgB"],
     [id |-> "u5", role |-> "editor", organisation |-> "orgB"],
     [id |-> "u6", role |-> "viewer", organisation |-> "orgA"]}

NoUser == [id |-> "none", role |-> "none", organisation |-> "none"]

StoredVideo ==
    [exists |-> TRUE, uploadedBy |-> "u1", organisation |-> "orgA",
     title |-> "t1", visibility |-> "private"]

NoRequest == [video |-> StoredVideo, user |-> NoUser, status |-> "none"]

Files ==
    [present : BOOLEAN, duration : 0..Max(MaxDuration, MaxRerunDuration), pts : PtsChoices]

NoFiles == [dir |-> FALSE, frames |-> {}, audio |-> "none", thumbnail |-> FALSE]

Init ==
    /\ file \in Files
    /\ db = NewVideo
    /\ disk = NoFiles
    /\ io = NoSockets
    /\ api = NoRequest
    /\ run = [r \in Slots |-> IF r = 1 THEN [NewRun EXCEPT !.pc = "load"] ELSE NewRun]

(***************************************************************************)
(* processVideo, one action per await.  A pc "pN" is the await of the      *)
(* save of updateProgress(N); the action that resumes from it performs the *)
(* write, emits the event and runs the code up to the next await.          *)
(***************************************************************************)
Resume(r, rn) == run' = [run EXCEPT ![r] = rn]

\* video = await Video.findById(videoId); updateProgress(5) up to its save.
Load(r) ==
    /\ run[r].pc = "load"
    /\ LET rn == [run[r] EXCEPT !.loaded = TRUE, !.doc = db, !.dirty = {}]
       IN  Resume(r, [SetProgress(rn, 5) EXCEPT !.pc = "p5"])
    /\ UNCHANGED <<api, io, file, db, disk>>

\* findById rejects: the catch block finds video null and does nothing.
LoadRejected(r) ==
    /\ run[r].pc = "load"
    /\ Resume(r, Catch(run[r], "store error"))
    /\ UNCHANGED <<api, io, file, db, disk>>

\* Stage 1: fs.existsSync(video.filepath).
Validate(r) ==
    /\ run[r].pc = "p5"
    /\ db' = SaveWrites(run[r], db)
    /\ LET rn == Progressed(run[r], db)
       IN  IF file.present
           THEN Resume(r, [SetProgress(rn, 10) EXCEPT !.pc = "p10"])
           ELSE Resume(r, Catch(rn, "Video file not found on disk"))
    /\ UNCHANGED <<api, io, file, disk>>

\* An updateProgress followed directly by the next one (NextProgressTypo:
\* 26 written for 62).
NextProgressTypo(pc) ==
    CASE pc = "p10" -> 15 [] pc = "p20" -> 25 [] pc = "p60" -> 26
      [] pc = "p85" -> 90 [] pc = "p90" -> 95 [] pc = "p75" -> 77
NextProgress(pc) ==
    CASE pc = "p10" -> 15 [] pc = "p20" -> 25 [] pc = "p60" -> 62
      [] pc = "p85" -> 90 [] pc = "p90" -> 95 [] pc = "p75" -> 77

NextPc(pc) ==
    CASE pc = "p10" -> "p15" [] pc = "p20" -> "p25" [] pc = "p60" -> "p62"
      [] pc = "p85" -> "p90" [] pc = "p90" -> "p95" [] pc = "p75" -> "p77"

ProgressStep(r) ==
    /\ run[r].pc \in {"p10", "p20", "p60", "p75", "p85", "p90"}
    /\ db' = SaveWrites(run[r], db)
    /\ Resume(r, [SetProgress(Progressed(run[r], db), NextProgress(run[r].pc))
                    EXCEPT !.pc = NextPc(run[r].pc)])
    /\ UNCHANGED <<api, io, file, disk>>

\* An updateProgress followed by a call of the media toolkit.
CallAfter(pc) ==
    CASE pc = "p15" -> "extractMetadata" [] pc = "p25" -> "extractFrames"
      [] pc = "p28" -> "generateThumbnail" [] pc = "pBatch" -> "analyseFrame"
      [] pc = "p62" -> "extractAudio" [] pc = "p66" -> "analyseLanguage"

\* batch.map(fp => analyseFrame(fp)): one call is issued per frame of the
\* batch; inFlight holds the frame numbers of the calls not yet settled.
Issued(rn) ==
    IF rn.pc = "pBatch"
    THEN [rn EXCEPT !.inFlight =
                      @ \cup (rn.batchStart + 1 ..
                                Min(rn.batchStart + BATCH_SIZE, Len(rn.framePaths)))]
    ELSE rn

ProgressCall(r) ==
    /\ run[r].pc \in {"p15", "p25", "p28", "pBatch", "p62", "p66"}
    /\ db' = SaveWrites(run[r], db)
    /\ Resume(r, [Issued(Progressed(run[r], db)) EXCEPT !.pc = CallAfter(run[r].pc)])
    /\ UNCHANGED <<api, io, file, disk>>

\* Stage 2: extractMetadata resolves.
ExtractMetadata(r) ==
    /\ run[r].pc = "extractMetadata"
    /\ Resume(r, [SetProgress(run[r], 20) EXCEPT !.pc = "p20"])
    /\ UNCHANGED <<api, io, file, db, disk>>

\* ffprobe reports an error: fatal.
ExtractMetadataRejected(r) ==
    /\ run[r].pc = "extractMetadata"
    /\ Resume(r, Catch(run[r], "ffprobe failed"))
    /\ disk' = CatchDisk(run[r], disk)
    /\ UNCHANGED <<api, io, file, db>>

\* The frame paths of the timestamps whose extraction ended without error.
FramePathsOf(n, ok) ==
    LET idx == SelectSeq([i \in 1..n |-> i], LAMBDA i : i \in ok)
    IN  [k \in 1..Len(idx) |-> <<"frame", idx[k] - 1>>]

\* extractFrames: scene detection (an error gives no scene timestamps), one
\* extraction per merged timestamp (an error skips it), and the fallback
\* frame when none was extracted (WithFallbackAlways: the fallback frame
\* extracted whatever the loop gave).
WithFallbackAlways(extracted, fallbackOk) ==
    IF fallbackOk THEN extracted \o <<<<"fallback", 0>>>> ELSE extracted
WithFallback(extracted, fallbackOk) ==
    IF Len(extracted) = 0
    THEN IF fallbackOk THEN <<<<"fallback", 0>>>> ELSE <<>>
    ELSE extracted

ExtractFrames(r) ==
    /\ run[r].pc = "extractFrames"
    /\ \E sceneOk \in BOOLEAN, fallbackOk \in BOOLEAN :
         LET scene == IF sceneOk THEN sceneTimestamps(file.pts, file.duration) ELSE <<>>
             n == Len(allTimestamps(file.duration, scene))
         IN  \E ok \in SUBSET (1..n) :
               LET paths == WithFallback(FramePathsOf(n, ok), fallbackOk)
               IN  /\ disk' = [disk EXCEPT !.dir = TRUE,
                                  !.frames = @ \cup {paths[i] : i \in 1..Len(paths)}]
                   /\ Resume(r, [SetProgress([run[r] EXCEPT !.framePaths = paths], 28)
                                   EXCEPT !.pc = "p28"])
    /\ UNCHANGED <<api, io, file, db>>

\* generateThumbnail resolves: video.thumbnailPath is set.
GenerateThumbnail(r) ==
    /\ run[r].pc = "generateThumbnail"
    /\ disk' = [disk EXCEPT !.thumbnail = TRUE]
    /\ Resume(r, [SetProgress(Assign(run[r], "thumbnailPath", "thumbnail.jpg"), 30)
                    EXCEPT !.pc = "p30"])
    /\ UNCHANGED <<api, io, file, db>>

\* generateThumbnail rejects: logged, the run goes on.
ThumbnailFailed(r) ==
    /\ run[r].pc = "generateThumbnail"
    /\ Resume(r, [SetProgress(run[r], 30) EXCEPT !.pc = "p30"])
    /\ UNCHANGED <<api, io, file, db, disk>>

\* Stage 3: video.processingStatus = PROCESSING; await video.save().
EnterAnalysis(r) ==
    /\ run[r].pc = "p30"
    /\ db' = SaveWrites(run[r], db)
    /\ Resume(r, [Assign(Progressed(run[r], db), "status", "processing")
                    EXCEPT !.pc = "saveStage3"])
    /\ UNCHANGED <<api, io, file, disk>>

StartVisual(r) ==
    /\ run[r].pc = "saveStage3"
    /\ db' = SaveWrites(run[r], db)
    /\ Resume(r, [SetProgress(Saved(run[r], db), 32) EXCEPT !.pc = "p32"])
    /\ UNCHANGED <<api, io, file, disk>>

\* Math.round(x) of x = num/den >= 0.
Round(num, den) == (2 * num + den) \div (2 * den)

\* The head of the batch loop: the next batch's updateProgress, or the
\* updateProgress(60) after the loop (BatchProgressWide: the loop's progress
\* spread up to 75).
BatchProgressWide(batchEnd, totalFrames) ==
    Min(32 + Round(batchEnd * 43, totalFrames), 73)
BatchProgress(batchEnd, totalFrames) ==
    Min(32 + Round(batchEnd * 28, totalFrames), 58)

LoopHead(rn) ==
    LET totalFrames == Len(rn.framePaths)
        batchEnd == Min(rn.batchStart + BATCH_SIZE, totalFrames)
    IN  IF rn.batchStart < totalFrames
        THEN [SetProgress(rn, BatchProgress(batchEnd, totalFrames)) EXCEPT !.pc = "pBatch"]
        ELSE [SetProgress(rn, 60) EXCEPT !.pc = "p60"]

VisualLoop(r) ==
    /\ run[r].pc = "p32"
    /\ db' = SaveWrites(run[r], db)
    /\ Resume(r, LoopHead([Progressed(run[r], db) EXCEPT !.batchStart = 0]))
    /\ UNCHANGED <<api, io, file, disk>>

\* Promise.allSettled over the batch: a fulfilled frame gives its score, a
\* rejected one (the service fails, or the frame file cannot be read) 0.
Rejected == 0 - 1

Settle(outcome) == IF outcome = Rejected THEN 0 ELSE outcome

\* The loop over batchResults: one entry is pushed per settled call, in the
\* order of the batch (PushedAll: Promise.all in place of allSettled in
\* effect, one rejection losing the batch's scores).
PushedAll(rn, outcome) ==
    [rn EXCEPT !.frameResults =
                 @ \o [j \in 1..Len(outcome) |->
                         IF \E k \in 1..Len(outcome) : outcome[k] = Rejected
                         THEN 0 ELSE outcome[j]],
               !.batchStart = @ + BATCH_SIZE]
Pushed(rn, outcome) ==
    [rn EXCEPT !.frameResults = @ \o [j \in 1..Len(outcome) |-> Settle(outcome[j])],
               !.batchStart = @ + BATCH_SIZE]

\* The paths of the batch that starts at rn.batchStart.
Batch(rn) ==
    SubSeq(rn.framePaths, rn.batchStart + 1,
           Min(rn.batchStart + BATCH_SIZE, Len(rn.framePaths)))

\* Promise.allSettled resolves with the given outcomes of the batch, run r
\* being in state rn; a frame file that cannot be read rejects.
ClassifyWith(r, rn, outcome) ==
    /\ rn.pc = "analyseFrame"
    /\ \A j \in 1..Len(outcome) :
         Batch(rn)[j] \notin disk.frames => outcome[j] = Rejected
    /\ Resume(r, LoopHead(Pushed(rn, outcome)))
    /\ UNCHANGED <<api, io, file, db, disk>>

\* Every call of the batch settles and Promise.allSettled resolves.
ClassifyBatch(r) ==
    \E outcome \in [1..Len(Batch(run[r])) -> FrameScores \cup {Rejected}] :
      ClassifyWith(r, [run[r] EXCEPT !.inFlight = {}], outcome)

\* extractAudio resolves: with a track written (a full one, or one under
\* 1000 bytes), or with nothing written when ffmpeg reports a missing or
\* unsupported audio stream.  Its mkdirSync creates the directory.
ExtractAudio(r) ==
    /\ run[r].pc = "extractAudio"
    /\ \E written \in {"wav", "tiny", "none"} :
         disk' = [disk EXCEPT !.dir = TRUE,
                              !.audio = IF written = "none" THEN @ ELSE written]
    /\ Resume(r, [SetProgress(run[r], 66) EXCEPT !.pc = "p66"])
    /\ UNCHANGED <<api, io, file, db>>

\* extractAudio rejects: caught by the try around the audio stage
\* (ExtractAudioFatal: the rejection reaching the outer catch).
ExtractAudioFatal(r) ==
    /\ run[r].pc = "extractAudio"
    /\ disk' = CatchDisk(run[r], [disk EXCEPT !.dir = TRUE])
    /\ Resume(r, Catch([run[r] EXCEPT !.audio = "rejected"], "audio extraction failed"))
    /\ UNCHANGED <<api, io, file, db>>

ExtractAudioRejected(r) ==
    /\ run[r].pc = "extractAudio"
    /\ disk' = [disk EXCEPT !.dir = TRUE]
    /\ Resume(r, [SetProgress(run[r], 75) EXCEPT !.pc = "p75", !.audio = "rejected"])
    /\ UNCHANGED <<api, io, file, db>>

\* The save of updateProgress(66) rejects inside the same try: caught, the
\* audio stage is skipped and the audio file stays.
AudioProgressRejected(r) ==
    /\ run[r].pc = "p66"
    /\ Resume(r, [SetProgress(run[r], 75) EXCEPT !.pc = "p75", !.audio = "skipped"])
    /\ UNCHANGED <<api, io, file, db, disk>>

\* analyseLanguage, then the unlink of the audio file (TranscribeThrows: the
\* stage without its try/catch).
TranscribeThrows(rn, score, outcome) == Catch(rn, "transcription failed")
Transcribed(rn, score, outcome) ==
    [SetProgress([rn EXCEPT !.languageScore = score, !.audio = outcome], 75)
       EXCEPT !.pc = "p75"]

AnalyseLanguage(r) ==
    /\ run[r].pc = "analyseLanguage"
    /\ \/ /\ disk.audio = "none"
          /\ Resume(r, Transcribed(run[r], 0, "absent"))
       \/ /\ disk.audio = "tiny"
          /\ Resume(r, Transcribed(run[r], 0, "tiny"))
       \/ /\ disk.audio = "wav"
          /\ \E t \in Transcripts :
               Resume(r, Transcribed(run[r], languageScoreOf(t[1], t[2]),
                                     IF t[2] = 0 THEN "empty" ELSE "speech"))
    /\ disk' = [disk EXCEPT !.audio = "none"]
    /\ UNCHANGED <<api, io, file, db>>

\* The speech service rejects: caught inside analyseLanguage, score 0.
TranscriptionFailed(r) ==
    /\ run[r].pc = "analyseLanguage"
    /\ disk.audio = "wav"
    /\ Resume(r, Transcribed(run[r], 0, "untranscribable"))
    /\ disk' = [disk EXCEPT !.audio = "none"]
    /\ UNCHANGED <<api, io, file, db>>

\* Stage 4: the scores and the classification are assigned to the document
\* and saved by updateProgress(85).
Classified(rn) ==
    LET adultScores == rn.frameResults
        adult == adultDetail(adultScores)
        language == languageDetail(rn.languageScore)
        a1 == Assign(Assign(rn, "adult", adult), "language", language)
        a2 == Assign(a1, "score", overallScore(adult, language))
    IN  Assign(a2, "classification",
               sensitivityClassification(adultScores, rn.languageScore))

Classify(r) ==
    /\ run[r].pc = "p77"
    /\ db' = SaveWrites(run[r], db)
    /\ Resume(r, [SetProgress(Classified(Progressed(run[r], db)), 85) EXCEPT !.pc = "p85"])
    /\ UNCHANGED <<api, io, file, disk>>

\* Stage 5: cleanup, then the final fields up to their save
\* (FinalFieldsNoReady: isStreamReady forgotten).
FinalFieldsNoReady(rn) ==
    Assign(Assign(rn, "status", "completed"), "progress", 100)
FinalFields(rn) ==
    Assign(Assign(Assign(rn, "isStreamReady", TRUE), "status", "completed"),
           "progress", 100)

Finalise(r) ==
    /\ run[r].pc = "p95"
    /\ db' = SaveWrites(run[r], db)
    /\ disk' = cleanupFrames(disk, run[r].framePaths)
    /\ Resume(r, [FinalFields(Progressed(run[r], db)) EXCEPT !.pc = "saveFinal"])
    /\ UNCHANGED <<api, io, file>>

\* The final save resolves: emitComplete.
\* (CompleteThenThrow: an exception after emitComplete, inside the try.)
CompleteThenThrow(r) ==
    /\ run[r].pc = "saveFinal"
    /\ db' = SaveWrites(run[r], db)
    /\ Resume(r, [emitComplete(Saved(run[r], db)) EXCEPT !.pc = "saveFailed",
                                                         !.message = "store error"])
    /\ UNCHANGED <<api, io, file, disk>>
Complete(r) ==
    /\ run[r].pc = "saveFinal"
    /\ db' = SaveWrites(run[r], db)
    /\ Resume(r, [emitComplete(Saved(run[r], db)) EXCEPT !.pc = "completed"])
    /\ UNCHANGED <<api, io, file, disk>>

\* A save outside the audio try rejects: the catch block.
SaveRejected(r) ==
    /\ run[r].pc \in {"p5", "p10", "p15", "p20", "p25", "p28", "p30", "saveStage3",
                      "p32", "pBatch", "p60", "p62", "p75", "p77", "p85", "p90",
                      "p95", "saveFinal"}
    /\ Resume(r, Catch(run[r], "store error"))
    /\ disk' = CatchDisk(run[r], disk)
    /\ UNCHANGED <<api, io, file, db>>

\* The save of the catch block resolves: emitError.
Failed(r) ==
    /\ run[r].pc = "saveFailed"
    /\ db' = SaveWrites(run[r], db)
    /\ Resume(r, [emitError(Saved(run[r], db), run[r].message) EXCEPT !.pc = "failed"])
    /\ UNCHANGED <<api, io, file, disk>>

\* The save of the catch block rejects: processVideo rejects, nothing is
\* persisted and nothing is emitted.
FailureSaveRejected(r) ==
    /\ run[r].pc = "saveFailed"
    /\ Resume(r, [run[r] EXCEPT !.pc = "stopped"])
    /\ UNCHANGED <<api, io, file, db, disk>>

(***************************************************************************)
(* reprocessVideo: the reset of the record, then processVideo.             *)
(***************************************************************************)
\* The fields reprocessVideo resets (ResetKeepStatus: the status forgotten).
ResetKeepStatus(d) ==
    [d EXCEPT !.progress = 0, !.error = NoText,
              !.classification = "unprocessed", !.score = NoScore]
\* (ResetNothing: the reset forgotten.)
ResetNothing(d) == d
\* (ResetKeepProgress: the progress forgotten.)
ResetKeepProgress(d) ==
    [d EXCEPT !.status = "pending", !.error = NoText,
              !.classification = "unprocessed", !.score = NoScore]
\* (ResetKeepClassification: the classification forgotten.)
ResetKeepClassification(d) ==
    [d EXCEPT !.status = "pending", !.progress = 0, !.error = NoText,
              !.score = NoScore]
\* (ResetKeepError: the error forgotten.)
ResetKeepError(d) ==
    [d EXCEPT !.status = "pending", !.progress = 0,
              !.classification = "unprocessed", !.score = NoScore]
Reset(d) ==
    [d EXCEPT !.status = "pending", !.progress = 0, !.error = NoText,
              !.classification = "unprocessed", !.score = NoScore]

\* A reprocess request while no run of the video is active.
Reprocess(r) ==
    /\ \A q \in Slots : ~Active(run[q])
    /\ r = 1
    /\ run[r].pc # "idle"
    /\ db' = Reset(db)
    /\ Resume(r, [NewRun EXCEPT !.pc = "load", !.rerun = TRUE])
    /\ UNCHANGED <<api, io, file, disk>>

Step(r) ==
    \/ Load(r) \/ LoadRejected(r) \/ Validate(r) \/ ProgressStep(r)
    \/ ProgressCall(r) \/ ExtractMetadata(r) \/ ExtractMetadataRejected(r)
    \/ ExtractFrames(r) \/ GenerateThumbnail(r) \/ ThumbnailFailed(r)
    \/ EnterAnalysis(r) \/ StartVisual(r) \/ VisualLoop(r) \/ ClassifyBatch(r)
    \/ ExtractAudio(r) \/ ExtractAudioRejected(r) \/ AudioProgressRejected(r)
    \/ AnalyseLanguage(r) \/ TranscriptionFailed(r) \/ Classify(r)
    \/ Finalise(r) \/ Complete(r) \/ SaveRejected(r) \/ Failed(r)
    \/ FailureSaveRejected(r)

\* The first run of an uploaded video.
Next == \E r \in Slots : Step(r)

Spec == Init /\ [][Next]_vars

\* The runs of a video that is reprocessed, any number of times, each time
\* after its previous run has ended.
InitRerun == Init /\ file.duration <= MaxRerunDuration

NextRerun == \E r \in Slots : Step(r) \/ Reprocess(r)

SpecRerun == InitRerun /\ [][NextRerun]_vars

(***************************************************************************)
(* The classification stage on every list of frame scores up to MaxScores  *)
(* and every language score of LangSet: a first run of a video of n        *)
(* seconds whose n frames were all extracted, at the save of               *)
(* updateProgress(77), its log taken from there.                           *)
(***************************************************************************)
ScoreLists == UNION {[1..n -> ScoreSet] : n \in 0..MaxScores}

AtClassify(scores, languageScore) ==
    LET n == Len(scores)
        at75 == [NewVideo EXCEPT !.status = "processing", !.progress = 75,
                                 !.thumbnailPath = "thumbnail.jpg"]
    IN  [NewRun EXCEPT !.pc = "p77", !.loaded = TRUE,
                       !.doc = [at75 EXCEPT !.progress = 77],
                       !.dirty = {"progress"},
                       !.touched = {"status", "progress", "thumbnailPath"},
                       !.fresh = at75,
                       !.framePaths = [i \in 1..n |-> <<"frame", i - 1>>],
                       !.frameResults = scores,
                       !.batchStart = BATCH_SIZE * ((n + BATCH_SIZE - 1) \div BATCH_SIZE),
                       !.languageScore = languageScore,
                       !.audio = IF languageScore = 0 THEN "empty" ELSE "speech"]

InitScore ==
    \E scores \in ScoreLists, languageScore \in LangSet :
      /\ file = [present |-> TRUE, duration |-> Len(scores), pts |-> <<>>]
      /\ db = [NewVideo EXCEPT !.status = "processing", !.progress = 75,
                               !.thumbnailPath = "thumbnail.jpg"]
      /\ disk = [dir |-> TRUE, frames |-> {<<"frame", i - 1>> : i \in 1..Len(scores)},
                 audio |-> "none", thumbnail |-> TRUE]
      /\ io = NoSockets
      /\ api = NoRequest
      /\ run = [r \in Slots |-> IF r = 1 THEN AtClassify(scores, languageScore)
                                          ELSE NewRun]

NextScore ==
    \E r \in Slots : Classify(r) \/ ProgressStep(r) \/ Finalise(r) \/ Complete(r)

SpecScore == InitScore /\ [][NextScore]_vars

(***************************************************************************)
(* Overlapping runs: reprocessVideo has no guard, so a request served      *)
(* while a run of the video is active resets the record and starts a       *)
(* second run of processVideo, which shares the record and, the frames     *)
(* directory being named after the video, the files on disk.               *)
(***************************************************************************)
\* A reprocess request while a run of the video is active.
ReprocessDuring(r) ==
    /\ \E q \in Slots : Active(run[q])
    /\ run[r].pc = "idle"
    /\ \A q \in Slots : q < r => run[q].pc # "idle"
    /\ db' = Reset(db)
    /\ Resume(r, [NewRun EXCEPT !.pc = "load", !.rerun = TRUE])
    /\ UNCHANGED <<api, io, file, disk>>

\* The first run of a video of one second and one frame, with no speech, as
\* it awaits the save of updateProgress(95): the state AtClassify after the
\* steps Classify, ProgressStep and ProgressStep, all saves accepted.
AtFinalise(score) ==
    LET d0 == [NewVideo EXCEPT !.status = "processing", !.progress = 75,
                               !.thumbnailPath = "thumbnail.jpg"]
        r0 == AtClassify(<<score>>, 0)
        d1 == SaveWrites(r0, d0)
        r1 == [SetProgress(Classified(Progressed(r0, d0)), 85) EXCEPT !.pc = "p85"]
        d2 == SaveWrites(r1, d1)
        r2 == [SetProgress(Progressed(r1, d1), 90) EXCEPT !.pc = "p90"]
        d3 == SaveWrites(r2, d2)
        r3 == [SetProgress(Progressed(r2, d2), 95) EXCEPT !.pc = "p95"]
    IN  [db |-> d3, run |-> r3]

\* The reprocess request arrives while that run is finalising.
InitRace ==
    \E score \in FrameScores :
      /\ file = [present |-> TRUE, duration |-> 1, pts |-> <<>>]
      /\ db = AtFinalise(score).db
      /\ disk = [dir |-> TRUE, frames |-> {<<"frame", 0>>}, audio |-> "none",
                 thumbnail |-> TRUE]
      /\ io = NoSockets
      /\ api = NoRequest
      /\ run = [r \in Slots |-> IF r = 1 THEN AtFinalise(score).run ELSE NewRun]

\* The steps of a run whose toolkit and store calls succeed after its
\* findById (the degraded outcomes of frames and audio included).
RaceStep(r) ==
    \/ Load(r) \/ LoadRejected(r) \/ Validate(r) \/ ProgressStep(r)
    \/ ProgressCall(r) \/ ExtractMetadata(r) \/ ExtractFrames(r)
    \/ GenerateThumbnail(r) \/ EnterAnalysis(r) \/ StartVisual(r)
    \/ VisualLoop(r) \/ ClassifyBatch(r) \/ ExtractAudio(r)
    \/ AnalyseLanguage(r) \/ Classify(r) \/ Finalise(r) \/ Complete(r)

NextRace == \E r \in Slots : RaceStep(r) \/ ReprocessDuring(r)

SpecRace == InitRace /\ [][NextRace]_vars

(***************************************************************************)
(* Properties.                                                             *)
(***************************************************************************)
Ended(rn) == rn.pc \in {"completed", "failed", "stopped"}

\* The progress values a run persisted and published, in order.
Reported(r) == SelectSeq(run[r].log, LAMBDA e : e.kind \in {"write", "progress"})

\* The events of one kind a run emitted to one room.
Events(r, kind, room) ==
    SelectSeq(run[r].log, LAMBDA e : e.op = "emit" /\ e.kind = kind /\ e.room = room)

\* C1: within one run, the progress values written to the record and
\* published in progress events never decrease, whatever the number of
\* frames and whichever non-fatal failures occur.
C1_ProgressNonDecreasing ==
    \A r \in Slots :
      LET reported == Reported(r)
      IN  \A i \in 1..(Len(reported) - 1) :
            reported[i].progress <= reported[i + 1].progress

\* A run of more than one batch has completed, its thumbnail and its audio
\* extraction having failed.
C1_Witness ==
    \E r \in Slots :
      /\ run[r].pc = "completed"
      /\ Len(run[r].framePaths) > BATCH_SIZE
      /\ db.thumbnailPath = NoText
      /\ run[r].audio = "rejected"

\* C2 (as claimed): a run that has stopped has left the persisted
\* processingStatus completed or failed.
C2_StoppedRunIsTerminal ==
    \A r \in Slots : Ended(run[r]) => db.status \in {"completed", "failed"}

\* C3 (as claimed): a run that an exception aborted has persisted status
\* failed and the exception's message, and has published one error event
\* with that message to the video's room and to the owner's room.
C3_AbortPersistsAndPublishes ==
    \A r \in Slots :
      (Ended(run[r]) /\ run[r].message # NoText) =>
        /\ db.status = "failed"
        /\ db.error = run[r].message
        /\ \A room \in {"video", "user"} :
             /\ Len(Events(r, "error", room)) = 1
             /\ Events(r, "error", room)[1].error = run[r].message

Fatal == {"Video file not found on disk", "ffprobe failed", "store error"}

\* C5: only a fatal error takes a run to its failure path, so a failed
\* status and a processingError come from a fatal error only, and a run
\* that ended without one has completed.
C5_DegradedFailuresAreNotFatal ==
    /\ \A r \in Slots : run[r].message # NoText => run[r].message \in Fatal
    /\ (db.status = "failed" \/ db.error # NoText) =>
         \E r \in Slots : run[r].message \in Fatal
    /\ \A r \in Slots :
         (Ended(run[r]) /\ run[r].message = NoText) =>
           (run[r].pc = "completed" /\ db.status = "completed" /\ db.error = NoText)

\* A run has completed although a frame extraction failed, the thumbnail
\* failed, a frame scored 0 and the transcription failed.
C5_Witness ==
    \E r \in Slots :
      /\ run[r].pc = "completed"
      /\ Len(run[r].framePaths) >= 1
      /\ Len(run[r].framePaths) < Len(allTimestamps(file.duration, <<>>))
      /\ db.thumbnailPath = NoText
      /\ run[r].audio = "untranscribable"
      /\ \E i \in 1..Len(run[r].frameResults) : run[r].frameResults[i] = 0

\* The formula of the specification, computed from the list of scores
\* without the code's sort and slice.
Indices(s) == 1..Len(s)

RECURSIVE SumOver(_, _)
SumOver(s, I) ==
    IF I = {} THEN 0
    ELSE LET i == CHOOSE i \in I : TRUE IN s[i] + SumOver(s, I \ {i})

Highest(s) ==
    IF s = <<>> THEN 0
    ELSE CHOOSE m \in {s[i] : i \in Indices(s)} : \A i \in Indices(s) : s[i] <= m

TopCount(s) == IF Len(s) < 5 THEN Len(s) ELSE 5

\* The sum of the TopCount(s) highest scores: those with fewer than
\* TopCount(s) scores ranked above them (equal scores ranked by position).
TopSum(s) ==
    LET above(i) == {j \in Indices(s) : s[j] > s[i] \/ (s[j] = s[i] /\ j < i)}
    IN  SumOver(s, {i \in Indices(s) : Cardinality(above(i)) < TopCount(s)})

\* 0.6 max + 0.25 (top mean) + 0.15 mean, as a fraction.
ExpectedNum(s) ==
    IF s = <<>> THEN 0
    ELSE 60 * Highest(s) * TopCount(s) * Len(s) + 25 * TopSum(s) * Len(s)
           + 15 * SumOver(s, Indices(s)) * TopCount(s)
ExpectedDen(s) == IF s = <<>> THEN 1 ELSE 100 * TopCount(s) * Len(s)

\* v is num/den rounded to the precision: v - 1/2 <= num/den < v + 1/2.
IsRounded(v, num, den) ==
    /\ 2 * den * v <= 2 * num + den
    /\ 2 * num + den < 2 * den * (v + 1)

\* The run has persisted the result of its classification stage.
Persisted(rn) == rn.pc \in {"p90", "p95", "saveFinal", "completed"}

\* C6: the persisted classification is flagged exactly when the weighted
\* adult score exceeds 0.4, or the highest frame score exceeds 0.7, or at
\* least two frame scores exceed 0.4, or the language score exceeds 0.15;
\* otherwise it is safe.
C6_FlagRule ==
    \A r \in Slots :
      Persisted(run[r]) =>
        LET s == run[r].frameResults
            flag == \/ 10 * ExpectedNum(s) > 4 * Scale * ExpectedDen(s)
                    \/ 10 * Highest(s) > 7 * Scale
                    \/ Cardinality({i \in Indices(s) : 10 * s[i] > 4 * Scale}) >= 2
                    \/ 100 * run[r].languageScore > 15 * Scale
        IN  db.classification = IF flag THEN "flagged" ELSE "safe"

\* A video is flagged by the count of frames above 0.4 alone.
C6_Witness ==
    \E r \in Slots :
      /\ Persisted(run[r])
      /\ db.classification = "flagged"
      /\ 10 * ExpectedNum(run[r].frameResults) <= 4 * Scale * ExpectedDen(run[r].frameResults)
      /\ 10 * Highest(run[r].frameResults) <= 7 * Scale
      /\ 100 * run[r].languageScore <= 15 * Scale

\* C7: the persisted adult detail is 0.6 max + 0.25 (mean of the min(5, n)
\* highest scores) + 0.15 mean, 0 for no scores, rounded to four decimals;
\* the persisted score is the larger of that weighted score and the
\* language score, rounded.
C7_WeightedScore ==
    \A r \in Slots :
      Persisted(run[r]) =>
        LET s == run[r].frameResults
            l == run[r].languageScore
            num == ExpectedNum(s)
            den == ExpectedDen(s)
        IN  /\ IsRounded(db.adult, num, den)
            /\ db.language = l
            /\ IF num >= l * den
               THEN IsRounded(db.score, num, den)
               ELSE db.score = l

\* More than five scores, a weighted score that needed rounding, and a
\* larger language score.
C7_Witness ==
    \E r \in Slots :
      /\ run[r].pc = "completed"
      /\ Len(run[r].frameResults) > 5
      /\ ExpectedNum(run[r].frameResults) % ExpectedDen(run[r].frameResults) # 0
      /\ db.adult > 0
      /\ db.score = db.language
      /\ db.language > db.adult

\* C8: with runs that do not overlap, a completed record is classified safe
\* or flagged and has a score.
C8_CompletedIsClassified ==
    db.status = "completed" =>
      (db.classification \in {"safe", "flagged"} /\ db.score # NoScore)

\* A run started by a reprocess request has completed.
C8_Witness ==
    \E r \in Slots : run[r].rerun /\ run[r].pc = "completed" /\ db.status = "completed"

\* The audio outcomes that give no language score.
NoSpeech == {"absent", "tiny", "rejected", "untranscribable", "empty"}

\* C9: a run with no frame (the fallback frame failed too) and no usable
\* audio is stopped by nothing but a store error, and completes with
\* adult 0, language 0, score 0 and classification safe.
C9_EmptyInputsAreSafe ==
    \A r \in Slots :
      (run[r].framePaths = <<>> /\ run[r].audio \in NoSpeech) =>
        /\ run[r].message \in {NoText, "store error"}
        /\ run[r].pc = "completed" =>
             /\ db.status = "completed"
             /\ db.adult = 0
             /\ db.language = 0
             /\ db.score = 0
             /\ db.classification = "safe"

\* Such a run has completed: no frame although the video has timestamps,
\* and an audio extraction that was rejected.
C9_Witness ==
    \E r \in Slots :
      /\ run[r].pc = "completed"
      /\ run[r].framePaths = <<>>
      /\ file.duration > 0
      /\ run[r].audio = "rejected"

\* C10 (as claimed): after a run that ended in failure the record shows
\* status failed, an error, classification unprocessed and no score.
C10_FailedRunHasNoClassification ==
    \A r \in Slots :
      run[r].pc = "failed" =>
        /\ db.status = "failed"
        /\ db.error # NoText
        /\ db.classification = "unprocessed"
        /\ db.score = NoScore

\* C11 (as claimed): the persisted isStreamReady turns from false to true
\* only in a write of the record that also sets processingStatus to
\* completed.
C11_StreamReadyOnlyWithCompleted ==
    [][(~db.isStreamReady /\ db'.isStreamReady) =>
         (db.status # "completed" /\ db'.status = "completed")]_vars

C14_ResetBeforeRerun ==
    \A r \in Slots :
      (run[r].rerun /\ run[r].pc = "load") =>
        /\ run[r].log = <<>>
        /\ ~run[r].loaded
        /\ db.status = "pending"
        /\ db.progress = 0
        /\ db.error = NoText
        /\ db.classification = "unprocessed"
        /\ db.score = NoScore

\* A reprocess request has been served for a video that had completed with
\* a non-zero adult score.
C14_Witness ==
    \E r \in Slots :
      /\ run[r].rerun
      /\ run[r].pc = "load"
      /\ db.isStreamReady
      /\ db.adult > 0

\* C15 (as claimed): at every step of a run, a first run or a rerun, the
\* persisted pipeline fields are those a first run of the same steps, with
\* the same outcomes of its external calls, has persisted.
C15_RerunLikeFirstRun ==
    \A r \in Slots : run[r].loaded => db = run[r].fresh

\* C16 (as claimed): the record a completed rerun leaves is the one its own
\* steps and outcomes determine, whatever the earlier runs had left in it.
C16_RerunEndIndependentOfPrior ==
    \A r \in Slots :
      (run[r].rerun /\ run[r].pc = "completed") => db = run[r].fresh

\* C17 (as claimed): when a run has ended, completed or failed, none of its
\* frame files and no audio file is left, and its frame directory, then
\* empty, is removed.
C17_NothingLeftOnDisk ==
    \A r \in Slots :
      Ended(run[r]) => (disk.frames = {} /\ disk.audio = "none" /\ ~disk.dir)

\* The write w of the record carries the values of the event e.
Carries(w, e) ==
    /\ w.op = "save"
    /\ CASE e.kind = "progress" ->
               w.status = "processing" /\ e.status = "processing"
               /\ w.progress = e.progress
          [] e.kind = "complete" ->
               w.status = "completed" /\ e.status = "completed"
               /\ w.progress = 100 /\ e.progress = 100
               /\ w.classification = e.classification /\ w.score = e.score
               /\ w.adult = e.adult /\ w.language = e.language
          [] e.kind = "error" ->
               w.status = "failed" /\ w.error = e.error /\ e.error # NoText

\* C18: every event a run has published went to the video's room and then,
\* unchanged, to the owner's room and to no other, directly after a write of
\* the record that succeeded and carried the event's values; and the record
\* holds what the run wrote last.
C18_PersistedThenPublishedTwice ==
    \A r \in Slots :
      LET log == run[r].log
      IN  /\ \A i \in 1..Len(log) :
                log[i].op = "emit" =>
                  IF log[i].room = "video"
                  THEN /\ i > 1 /\ i < Len(log)
                       /\ Carries(log[i - 1], log[i])
                       /\ log[i + 1] = [log[i] EXCEPT !.room = "user"]
                  ELSE /\ log[i].room = "user"
                       /\ i > 2
                       /\ log[i - 1] = [log[i] EXCEPT !.room = "video"]
                       /\ log[i - 2].op = "save"
          /\ LET writes == SelectSeq(log, LAMBDA e : e.op = "save")
             IN  writes # <<>> =>
                   LET last == writes[Len(writes)]
                   IN  /\ last.status = db.status
                       /\ last.progress = db.progress
                       /\ last.error = db.error

\* A run has published progress events and then, a save having been
\* rejected, one error event to each room.
C18_Witness ==
    \E r \in Slots :
      /\ run[r].pc = "failed"
      /\ run[r].message = "store error"
      /\ Len(Events(r, "progress", "user")) >= 3
      /\ Len(Events(r, "error", "video")) = 1
      /\ Len(Events(r, "error", "user")) = 1

\* The writes of the record a run has made, in order.
Writes(r) == SelectSeq(run[r].log, LAMBDA e : e.op = "save")

\* C19 (as claimed): when a first run has failed, the persisted progress is
\* the one that was persisted last before the failure path wrote the
\* record (that of the new record when the run had written nothing).
C19_FailureFreezesProgress ==
    \A r \in Slots :
      run[r].pc = "failed" =>
        LET writes == Writes(r)
            before == IF Len(writes) = 1 THEN NewVideo.progress
                      ELSE writes[Len(writes) - 1].progress
        IN  db.progress = before

Pipeline(d) ==
    <<d.status, d.progress, d.error, d.classification, d.score, d.adult, d.language>>

\* C21 (as claimed): while a run is active, a step that changes the
\* pipeline fields of the record is a step of that run: neither another
\* run nor a reprocess request writes them.
C21_OnlyActiveRunWrites ==
    [][\A q \in Slots :
         (Active(run[q]) /\ Pipeline(db') # Pipeline(db)) => run'[q] # run[q]]_vars

\* C22 (as claimed): from the end of its frame extraction to its own
\* cleanup, the frame files of a run stay on disk: no other run deletes
\* them.
C22_FramesOwnedByRun ==
    \A r \in Slots :
      run[r].pc \in {"p28", "generateThumbnail", "p30", "saveStage3", "p32",
                     "pBatch", "analyseFrame", "p60", "p62", "extractAudio",
                     "p66", "analyseLanguage", "p75", "p77", "p85", "p90", "p95"} =>
        \A i \in 1..Len(run[r].framePaths) : run[r].framePaths[i] \in disk.frames

\* ---------------------------------------------------------------------
\* The batch loop on its own: a first run awaiting the save of
\* updateProgress(32) with n extracted frames, where file.outcomes lists
\* what the image classifier answers for each frame, in frame order.
MaxFrames == 6

AtVisual(n) ==
    LET at30 == [NewVideo EXCEPT !.status = "processing", !.progress = 30,
                                 !.thumbnailPath = "thumbnail.jpg"]
    IN  [NewRun EXCEPT !.pc = "p32", !.loaded = TRUE,
                       !.doc = [at30 EXCEPT !.progress = 32],
                       !.dirty = {"progress"},
                       !.touched = {"status", "progress", "thumbnailPath"},
                       !.fresh = at30,
                       !.framePaths = [i \in 1..n |-> <<"frame", i - 1>>]]

InitBatch ==
    \E n \in 1..MaxFrames :
      \E outcomes \in [1..n -> FrameScores \cup {Rejected}] :
        /\ file = [present |-> TRUE, duration |-> n, pts |-> <<>>,
                   outcomes |-> outcomes]
        /\ db = [NewVideo EXCEPT !.status = "processing", !.progress = 30,
                                 !.thumbnailPath = "thumbnail.jpg"]
        /\ disk = [dir |-> TRUE, frames |-> {<<"frame", i - 1>> : i \in 1..n},
                   audio |-> "none", thumbnail |-> TRUE]
        /\ io = NoSockets
        /\ api = NoRequest
        /\ run = [r \in Slots |-> IF r = 1 THEN AtVisual(n) ELSE NewRun]

\* The call for frame k settles, as the classifier answers for the frame.
SettleCall(r) ==
    /\ run[r].pc = "analyseFrame"
    /\ \E k \in run[r].inFlight :
         Resume(r, [run[r] EXCEPT !.inFlight = @ \ {k}])
    /\ UNCHANGED <<api, io, file, db, disk>>

\* Promise.allSettled resolves once no call of the batch is in flight
\* (AnySettled: it resolves as soon as one call has settled).
AnySettled(r) ==
    /\ Cardinality(run[r].inFlight) < Len(Batch(run[r]))
    /\ ClassifyWith(r, run[r],
                    SubSeq(file.outcomes, run[r].batchStart + 1,
                           Min(run[r].batchStart + BATCH_SIZE, Len(run[r].framePaths))))
AllSettled(r) ==
    /\ run[r].inFlight = {}
    /\ ClassifyWith(r, run[r],
                    SubSeq(file.outcomes, run[r].batchStart + 1,
                           Min(run[r].batchStart + BATCH_SIZE, Len(run[r].framePaths))))

NextBatch ==
    \E r \in Slots :
      \/ VisualLoop(r) \/ ProgressCall(r) \/ SettleCall(r) \/ AllSettled(r)
      \/ ProgressStep(r)

SpecBatch == InitBatch /\ [][NextBatch]_vars

\* C23: a frame whose classification failed has score 0, every other frame
\* has exactly the score the classifier returned for it, the list has one
\* entry per frame of the batches settled so far, in frame order, and after
\* the loop one entry per extracted frame.
C23_RejectedFrameScoresZero ==
    \A r \in Slots :
      LET rn == run[r]
      IN  rn.pc \in {"pBatch", "analyseFrame", "p60", "p62", "extractAudio"} =>
            /\ Len(rn.frameResults) = Min(rn.batchStart, Len(rn.framePaths))
            /\ \A k \in 1..Len(rn.frameResults) :
                 rn.frameResults[k] =
                   IF file.outcomes[k] = Rejected THEN 0 ELSE file.outcomes[k]
            /\ rn.pc \in {"p60", "p62", "extractAudio"} =>
                 Len(rn.frameResults) = Len(rn.framePaths)

\* A run of two batches left the loop; frame 2 failed, its neighbours in the
\* batch and a frame of the second batch kept their scores.
C23_Witness ==
    \E r \in Slots :
      /\ run[r].pc = "p60"
      /\ Len(run[r].framePaths) = 5
      /\ file.outcomes[2] = Rejected
      /\ run[r].frameResults = <<9000, 0, 9000, 0, 9000>>
      /\ file.outcomes[4] = 0

\* C24: within one run at most BATCH_SIZE classification calls are in
\* flight, and calls are issued only when no call of the run is in flight.
C24_BatchesSequential ==
    /\ [](\A r \in Slots : Cardinality(run[r].inFlight) <= BATCH_SIZE)
    /\ [][\A r \in Slots :
            run'[r].inFlight \ run[r].inFlight # {} => run[r].inFlight = {}]_vars

\* The second batch of a run is in flight, with one of its calls settled.
C24_Witness ==
    \E r \in Slots :
      /\ run[r].pc = "analyseFrame"
      /\ run[r].batchStart = BATCH_SIZE
      /\ run[r].inFlight = {BATCH_SIZE + 2}
      /\ Len(run[r].framePaths) = BATCH_SIZE + 2

\* ---------------------------------------------------------------------
\* extractFrames on its own: a first run that has just called it, over the
\* durations 0..MaxSampleDuration and the edges of the interval table, and
\* over the scene detections of at most MaxScenes frames.
MaxSampleDuration == 31
MaxScenes == 3
TableEdges == {120, 121, 600, 601, 1800, 1801}
\* pts_time values (1/1000 s) scene detection may print, in ascending order.
ScenePts == {4, 1001, 1004, 1200, 1500, 1996}

RECURSIVE Ascending(_)
Ascending(S) ==
    IF S = {} THEN <<>>
    ELSE LET m == CHOOSE x \in S : \A y \in S : x <= y
         IN  <<m>> \o Ascending(S \ {m})

AtExtractFrames ==
    LET at25 == [NewVideo EXCEPT !.status = "processing", !.progress = 25]
    IN  [NewRun EXCEPT !.pc = "extractFrames", !.loaded = TRUE, !.doc = at25,
                       !.touched = {"status", "progress"}, !.fresh = at25]

InitSample ==
    \E duration \in (0..MaxSampleDuration) \cup TableEdges :
      \E S \in SUBSET ScenePts :
        /\ Cardinality(S) <= MaxScenes
        /\ file = [present |-> TRUE, duration |-> duration, pts |-> Ascending(S)]
        /\ db = [NewVideo EXCEPT !.status = "processing", !.progress = 25]
        /\ disk = NoFiles
        /\ io = NoSockets
        /\ api = NoRequest
        /\ run = [r \in Slots |-> IF r = 1 THEN AtExtractFrames ELSE NewRun]

\* extractFrames up to the await of detectSceneChanges.
RegularSampling(r) ==
    /\ run[r].pc = "extractFrames"
    /\ disk' = [disk EXCEPT !.dir = TRUE]
    /\ Resume(r, [run[r] EXCEPT !.pc = "detectSceneChanges",
                                !.regularTimestamps = regularTimestamps(file.duration)])
    /\ UNCHANGED <<api, io, file, db>>

\* detectSceneChanges resolves (with [] on an ffmpeg error); merge and sort.
SceneChangesDetected(r) ==
    /\ run[r].pc = "detectSceneChanges"
    /\ \E sceneOk \in BOOLEAN :
         LET scene == IF sceneOk THEN sceneTimestamps(file.pts, file.duration) ELSE <<>>
         IN  Resume(r, [run[r] EXCEPT !.pc = "extractFrame",
                                     !.sceneTimestamps = scene,
                                     !.allTimestamps = allTimestamps(file.duration, scene)])
    /\ UNCHANGED <<api, io, file, db, disk>>

\* Every frame of allTimestamps is extracted; updateProgress(28) is called.
FramesExtracted(r) ==
    /\ run[r].pc = "extractFrame"
    /\ LET n == Len(run[r].allTimestamps)
           paths == WithFallback(FramePathsOf(n, 1..n), TRUE)
       IN  /\ disk' = [disk EXCEPT !.frames = @ \cup {paths[i] : i \in 1..Len(paths)}]
           /\ Resume(r, [SetProgress([run[r] EXCEPT !.framePaths = paths], 28)
                           EXCEPT !.pc = "p28"])
    /\ UNCHANGED <<api, io, file, db>>

NextSample ==
    \E r \in Slots : RegularSampling(r) \/ SceneChangesDetected(r) \/ FramesExtracted(r)

SpecSample == InitSample /\ [][NextSample]_vars

Sampled(rn) == rn.pc \in {"detectSceneChanges", "extractFrame", "p28"}
Merged(rn) == rn.pc \in {"extractFrame", "p28"}

Range(s) == {s[i] : i \in 1..Len(s)}

C27_StrictlyAscending ==
    \A r \in Slots :
      Merged(run[r]) =>
        \A k \in 1..(Len(run[r].allTimestamps) - 1) :
          run[r].allTimestamps[k] < run[r].allTimestamps[k + 1]

\* Two scene changes rounded to the same 1.00 s, which is 0.5 s from both
\* neighbouring regular timestamps: one of them is in the merged list.
C27_Witness ==
    \E r \in Slots :
      /\ Merged(run[r])
      /\ run[r].sceneTimestamps = <<100, 100>>
      /\ run[r].allTimestamps = <<50, 100, 150>>

\* MAX_ANALYSIS_FRAMES, default.
maxAnalysisFrames == 10

\* C30: a run samples at most maxAnalysisFrames frames.
C30_AtMostMaxFrames ==
    \A r \in Slots :
      run[r].pc = "p28" => Len(run[r].framePaths) <= maxAnalysisFrames

\* ---------------------------------------------------------------------
\* analyseLanguage on a transcript, a sequence of characters.  The
\* transcripts explored are the concatenations of at most MaxPieces pieces.
MaxPieces == 6
Pieces == {<<" ">>, <<"a">>, <<"a", "s", "s">>, <<"A", "!", "s", "s">>}

RECURSIVE Flatten(_)
Flatten(ps) == IF ps = <<>> THEN <<>> ELSE Head(ps) \o Flatten(Tail(ps))

TranscriptTexts ==
    {Flatten(ps) : ps \in UNION {[1..n -> Pieces] : n \in 0..MaxPieces}}

PROFANITY_LIST ==
    {<<"f", "u", "c", "k">>, <<"s", "h", "i", "t">>, <<"a", "s", "s">>,
     <<"b", "i", "t", "c", "h">>, <<"d", "a", "m", "n">>,
     <<"h", "e", "l", "l">>, <<"b", "a", "s", "t", "a", "r", "d">>,
     <<"d", "i", "c", "k">>, <<"p", "i", "s", "s">>, <<"c", "r", "a", "p">>,
     <<"c", "o", "c", "k">>, <<"c", "u", "n", "t">>, <<"s", "l", "u", "t">>,
     <<"w", "h", "o", "r", "e">>, <<"n", "i", "g", "g", "e", "r">>,
     <<"n", "i", "g", "g", "a">>, <<"f", "a", "g">>,
     <<"f", "a", "g", "g", "o", "t">>, <<"r", "e", "t", "a", "r", "d">>,
     <<"m", "o", "t", "h", "e", "r", "f", "u", "c", "k", "e", "r">>,
     <<"a", "s", "s", "h", "o", "l", "e">>,
     <<"d", "u", "m", "b", "a", "s", "s">>,
     <<"b", "u", "l", "l", "s", "h", "i", "t">>,
     <<"g", "o", "d", "d", "a", "m", "n">>, <<"w", "t", "f">>,
     <<"s", "t", "f", "u">>, <<"l", "m", "a", "o">>, <<"p", "o", "r", "n">>,
     <<"n", "u", "d", "e">>, <<"n", "a", "k", "e", "d">>}

\* String.prototype.toLowerCase, on the characters of the pieces.
toLowerCase(text) == [i \in 1..Len(text) |-> IF text[i] = "A" THEN "a" ELSE text[i]]

IsSpace(c) == c = " "
IsLowerLetter(c) ==
    c \in {"a", "b", "c", "d", "e", "f", "g", "h", "i", "j", "k", "l", "m",
           "n", "o", "p", "q", "r", "s", "t", "u", "v", "w", "x", "y", "z"}

\* !transcript.trim()
IsBlank(text) == \A i \in 1..Len(text) : IsSpace(text[i])

\* text.split(/\s+/): the pieces between the runs of whitespace, the empty
\* piece before a leading run and after a trailing run included.
RECURSIVE SplitFrom(_, _, _)
SplitFrom(text, i, word) ==
    IF i > Len(text) THEN <<word>>
    ELSE IF IsSpace(text[i])
         THEN IF i > 1 /\ IsSpace(text[i - 1])
              THEN SplitFrom(text, i + 1, word)
              ELSE <<word>> \o SplitFrom(text, i + 1, <<>>)
         ELSE SplitFrom(text, i + 1, Append(word, text[i]))

split(text) == SplitFrom(text, 1, <<>>)

\* word.replace(/[^a-z]/g, "")
cleaned(word) == SelectSeq(word, IsLowerLetter)

\* cleaned.includes(p)
includes(word, p) ==
    \E i \in 1..(Len(word) - Len(p) + 1) : SubSeq(word, i, i + Len(p) - 1) = p

IsProfane(word) == \E p \in PROFANITY_LIST : includes(cleaned(word), p)

\* analyseLanguage from the transcription result on.
analyseLanguage(text) ==
    LET transcript == toLowerCase(text)
        words == split(transcript)
        totalWords == Len(words)
        profaneCount == Cardinality({i \in 1..totalWords : IsProfane(words[i])})
    IN  IF IsBlank(transcript) THEN 0
        ELSE languageScoreOf(profaneCount, totalWords)

AtAnalyseLanguage ==
    LET at66 == [NewVideo EXCEPT !.status = "processing", !.progress = 66,
                                 !.thumbnailPath = "thumbnail.jpg"]
    IN  [NewRun EXCEPT !.pc = "analyseLanguage", !.loaded = TRUE, !.doc = at66,
                       !.touched = {"status", "progress", "thumbnailPath"},
                       !.fresh = at66,
                       !.framePaths = <<<<"frame", 0>>>>,
                       !.frameResults = <<0>>,
                       !.batchStart = BATCH_SIZE]

InitLanguage ==
    \E text \in TranscriptTexts :
      /\ file = [present |-> TRUE, duration |-> 1, pts |-> <<>>, text |-> text]
      /\ db = [NewVideo EXCEPT !.status = "processing", !.progress = 66,
                               !.thumbnailPath = "thumbnail.jpg"]
      /\ disk = [dir |-> TRUE, frames |-> {<<"frame", 0>>}, audio |-> "wav",
                 thumbnail |-> TRUE]
      /\ io = NoSockets
      /\ api = NoRequest
      /\ run = [r \in Slots |-> IF r = 1 THEN AtAnalyseLanguage ELSE NewRun]

\* The speech service answers with the transcript file.text.
AnalyseText(r) ==
    /\ run[r].pc = "analyseLanguage"
    /\ disk.audio = "wav"
    /\ Resume(r, Transcribed(run[r], analyseLanguage(file.text),
                             IF IsBlank(file.text) THEN "empty" ELSE "speech"))
    /\ disk' = [disk EXCEPT !.audio = "none"]
    /\ UNCHANGED <<api, io, file, db>>

NextLanguage == \E r \in Slots : AnalyseText(r) \/ ProgressStep(r)

SpecLanguage == InitLanguage /\ [][NextLanguage]_vars

\* C28: the language score is 0 for a blank transcript and otherwise
\* min(1, 3 * profane / total) rounded to four decimals, total being the
\* number of whitespace-separated tokens and profane the number of tokens
\* that, lowercased and stripped of non-letters, contain a lexicon entry.
TokenStarts(text) ==
    {i \in 1..Len(text) : ~ IsSpace(text[i]) /\ (i = 1 \/ IsSpace(text[i - 1]))}
TokenAt(text, i) ==
    LET end == CHOOSE j \in i..Len(text) :
                 /\ \A k \in i..j : ~ IsSpace(text[k])
                 /\ (j = Len(text) \/ IsSpace(text[j + 1]))
    IN  SubSeq(text, i, end)
TokenProfane(token) ==
    LET letters == SelectSeq([i \in 1..Len(token) |->
                                IF token[i] = "A" THEN "a" ELSE token[i]],
                             LAMBDA c : c \in {"a", "s"})
    IN  \E p \in PROFANITY_LIST, i \in 1..Len(letters) :
          i + Len(p) - 1 <= Len(letters) /\ SubSeq(letters, i, i + Len(p) - 1) = p

C28_LanguageScore ==
    \A r \in Slots :
      run[r].pc \in {"p75", "p77"} =>
        LET total == Cardinality(TokenStarts(file.text))
            profane == Cardinality({i \in TokenStarts(file.text) :
                                     TokenProfane(TokenAt(file.text, i))})
        IN  run[r].languageScore =
              IF total = 0 THEN 0
              ELSE Min((2 * 3 * profane * Scale + total) \div (2 * total), Scale)

\* ---------------------------------------------------------------------
\* The connection handler and the emit functions on their own.  The runs
\* that call the emit functions are left out: any sequence of at most
\* MaxEvents emit calls is followed.

\* io.on("connection"): the socket, authenticated as user u, joins user:<u>.
Connect(s) ==
    /\ io.user[s] = "none"
    /\ \E u \in Users :
         io' = [io EXCEPT !.connected = @ \cup {s}, !.user[s] = u,
                          !.rooms[s] = {<<"user", u>>}]
    /\ UNCHANGED <<api, file, db, disk, run>>

\* socket.on("subscribe:video"): socket.join("video:<videoId>").
SubscribeVideo(s) ==
    /\ s \in io.connected
    /\ \E v \in Videos :
         io' = [io EXCEPT !.rooms[s] = @ \cup {<<"video", v>>},
                          !.asked[s] = @ \cup {v}]
    /\ UNCHANGED <<api, file, db, disk, run>>

\* socket.on("unsubscribe:video"): socket.leave("video:<videoId>")
\* (UnsubscribeIgnored: the handler without the leave).
UnsubscribeIgnored(s) ==
    /\ s \in io.connected
    /\ \E v \in Videos : io' = [io EXCEPT !.asked[s] = @ \ {v}]
    /\ UNCHANGED <<api, file, db, disk, run>>
UnsubscribeVideo(s) ==
    /\ s \in io.connected
    /\ \E v \in Videos :
         io' = [io EXCEPT !.rooms[s] = @ \ {<<"video", v>>},
                          !.asked[s] = @ \ {v}]
    /\ UNCHANGED <<api, file, db, disk, run>>

\* socket.on("disconnect"): the socket has left every room.
Disconnect(s) ==
    /\ s \in io.connected
    /\ io' = [io EXCEPT !.connected = @ \ {s}, !.rooms[s] = {}, !.asked[s] = {}]
    /\ UNCHANGED <<api, file, db, disk, run>>

\* io.to(room).emit(kind, ...): delivered to the sockets in the room.
To(i, room, kind) ==
    [i EXCEPT !.received =
                [s \in Sockets |->
                   IF room \in i.rooms[s]
                   THEN Append(@[s], [n |-> i.emitted, kind |-> kind, room |-> room])
                   ELSE @[s]]]

\* emitProgress / emitComplete / emitError for the video v1 of user "owner":
\* to video:<id>, then to user:<owner>.  Nothing is published for v2.
\* (PublishUnion: one emit to the union of the two groups,
\* io.to(video).to(user).emit, which delivers once per socket.)
PublishUnion ==
    /\ io.emitted < MaxEvents
    /\ \E kind \in {"progress", "complete", "error"} :
         io' = [io EXCEPT !.emitted = @ + 1,
                          !.received =
                            [s \in Sockets |->
                               IF io.rooms[s] \cap {<<"video", "v1">>, <<"user", "owner">>} # {}
                               THEN Append(@[s], [n |-> io.emitted + 1, kind |-> kind,
                                                  room |-> <<"video", "v1">>])
                               ELSE @[s]]]
    /\ UNCHANGED <<api, file, db, disk, run>>
Publish ==
    /\ io.emitted < MaxEvents
    /\ \E kind \in {"progress", "complete", "error"} :
         io' = To(To([io EXCEPT !.emitted = @ + 1], <<"video", "v1">>, kind),
                  <<"user", "owner">>, kind)
    /\ UNCHANGED <<api, file, db, disk, run>>

InitSocket ==
    /\ file = [present |-> TRUE, duration |-> 1, pts |-> <<>>]
    /\ db = NewVideo
    /\ disk = NoFiles
    /\ run = [r \in Slots |-> NewRun]
    /\ io = NoSockets
    /\ api = NoRequest

NextSocket ==
    \/ \E s \in Sockets :
         Connect(s) \/ SubscribeVideo(s) \/ UnsubscribeVideo(s) \/ Disconnect(s)
    \/ Publish

SpecSocket == InitSocket /\ [][NextSocket]_vars

\* C29: a socket receives an event only in the step that publishes it, and
\* only through a group it is in at that moment: the video group of a video
\* it asked for and has not unsubscribed from, or the group of its user,
\* while it is connected.  Subscribing, unsubscribing and disconnecting
\* deliver nothing.
C29_OnlyWhileMember ==
    [][\A s \in Sockets :
         /\ io'.emitted = io.emitted => io'.received[s] = io.received[s]
         /\ \A k \in (Len(io.received[s]) + 1)..Len(io'.received[s]) :
              LET e == io'.received[s][k]
              IN  /\ s \in io.connected
                  /\ e.n = io'.emitted
                  /\ e.room[1] = "video" => e.room[2] \in io.asked[s]
                  /\ e.room[1] = "user" => e.room[2] = io.user[s]]_vars

\* A viewer's socket received the first event of v1, unsubscribed, and did
\* not receive the second.
C29_Witness ==
    \E s \in Sockets :
      /\ s \in io.connected
      /\ io.user[s] = "viewer"
      /\ io.asked[s] = {}
      /\ io.emitted = 2
      /\ Len(io.received[s]) = 1
      /\ io.received[s][1].n = 1
      /\ io.received[s][1].room = <<"video", "v1">>

\* ---------------------------------------------------------------------
\* PUT and DELETE /api/videos/:id on a processed video of user u1 of
\* organisation orgA, requested by any of the Requesters.

\* editorAndAbove: rbac(ADMIN, EDITOR).
editorAndAbove(u) == u.role \in {"admin", "editor"}

\* The access test of updateVideo and deleteVideo: the 403 branch is taken
\* when this is false.
MayChange(video, u) == ~ (video.uploadedBy # u.id /\ u.role # "admin")

Answered(u, status) == [api EXCEPT !.user = u, !.status = status]

\* updateVideo behind editorAndAbove; title and visibility of the body are
\* "" when absent.
UpdateVideo ==
    /\ \E u \in Requesters, title \in {"", "t2"}, visibility \in {"", "public"} :
         api' = IF ~ editorAndAbove(u) THEN Answered(u, "403")
                ELSE IF ~ api.video.exists THEN Answered(u, "404")
                ELSE IF ~ MayChange(api.video, u) THEN Answered(u, "403")
                ELSE [Answered(u, "200") EXCEPT
                        !.video.title = IF title # "" THEN title ELSE @,
                        !.video.visibility = IF visibility # "" THEN visibility ELSE @]
    /\ UNCHANGED <<file, db, disk, run, io>>

\* updateVideo when video.save() rejects: next(error).
UpdateRejected ==
    /\ api.video.exists
    /\ \E u \in Requesters :
         /\ editorAndAbove(u) /\ MayChange(api.video, u)
         /\ api' = Answered(u, "500")
    /\ UNCHANGED <<file, db, disk, run, io>>

\* deleteVideo behind editorAndAbove: the source file and the thumbnail
\* are unlinked when they exist, then the record is deleted.
DeleteVideo ==
    \E u \in Requesters :
      IF editorAndAbove(u) /\ api.video.exists /\ MayChange(api.video, u)
      THEN /\ api' = [Answered(u, "200") EXCEPT !.video.exists = FALSE]
           /\ file' = [file EXCEPT !.present = FALSE]
           /\ disk' = [disk EXCEPT !.thumbnail =
                                     IF db.thumbnailPath # NoText THEN FALSE ELSE @]
           /\ UNCHANGED <<db, run, io>>
      ELSE /\ api' = Answered(u, IF editorAndAbove(u) /\ ~ api.video.exists
                                 THEN "404" ELSE "403")
           /\ UNCHANGED <<file, db, disk, run, io>>

InitAccess ==
    \E thumbnail \in BOOLEAN :
      /\ file = [present |-> TRUE, duration |-> 1, pts |-> <<>>]
      /\ db = [NewVideo EXCEPT !.status = "completed", !.progress = 100,
                               !.classification = "safe", !.score = 0,
                               !.isStreamReady = TRUE,
                               !.thumbnailPath = IF thumbnail THEN "thumbnail.jpg"
                                                 ELSE NoText]
      /\ disk = [NoFiles EXCEPT !.thumbnail = thumbnail]
      /\ run = [r \in Slots |-> NewRun]
      /\ io = NoSockets
      /\ api = NoRequest

NextAccess == UpdateVideo \/ UpdateRejected \/ DeleteVideo

SpecAccess == InitAccess /\ [][NextAccess]_vars

\* C31: a request changes or removes the video only when the requester is
\* its uploader or an admin of its organisation; every other request for
\* the stored video is answered 403.
C31_OnlyUploaderOrOrgAdmin ==
    [][LET u == api'.user
           v == api.video
           permitted == \/ v.uploadedBy = u.id
                        \/ u.role = "admin" /\ u.organisation = v.organisation
       IN  (v.exists /\ ~ permitted) =>
             /\ api'.status = "403"
             /\ api'.video = v /\ file' = file /\ disk' = disk /\ db' = db]_vars

\* The stage a run is in: 1 Validate, 2 Metadata / Frames / Thumbnail,
\* 3 Visual, 4 Audio, 5 Classify, 6 Finalize, 7 ended or aborting; 0 before
\* the first updateProgress.
StageOf(pc) ==
    CASE pc \in {"idle", "load"} -> 0
      [] pc \in {"p5", "p10"} -> 1
      [] pc \in {"p15", "extractMetadata", "p20", "p25", "extractFrames", "p28",
                 "generateThumbnail", "p30"} -> 2
      [] pc \in {"saveStage3", "p32", "pBatch", "analyseFrame", "p60"} -> 3
      [] pc \in {"p62", "extractAudio", "p66", "analyseLanguage", "p75"} -> 4
      [] pc \in {"p77", "p85", "p90"} -> 5
      [] pc \in {"p95", "saveFinal"} -> 6
      [] pc \in {"saveFailed", "completed", "failed", "stopped"} -> 7

StageWindow(stage) ==
    CASE stage = 1 -> 0..10 [] stage = 2 -> 10..30 [] stage = 3 -> 30..60
      [] stage = 4 -> 60..75 [] stage = 5 -> 75..90 [] stage = 6 -> 90..100
      [] OTHER -> {}

\* C32: a run never goes back to an earlier stage, and every progress value
\* it publishes lies in the window of the stage that published it.
C32_StagesInOrder ==
    [][\A r \in Slots :
         /\ StageOf(run[r].pc) <= StageOf(run'[r].pc)
         /\ \A k \in (Len(run[r].log) + 1)..Len(run'[r].log) :
              LET e == run'[r].log[k]
              IN  (e.op = "emit" /\ e.kind \in {"progress", "complete"}) =>
                    e.progress \in StageWindow(StageOf(run[r].pc))]_vars

\* A run of two batches has completed: it published 46 in the visual stage
\* and 100 at the end.
C32_Witness ==
    \E r \in Slots :
      /\ run[r].pc = "completed"
      /\ Len(run[r].framePaths) > BATCH_SIZE
      /\ \E k \in 1..Len(run[r].log) :
           run[r].log[k].op = "emit" /\ run[r].log[k].progress \in 33..58
      /\ run[r].log[Len(run[r].log)].progress = 100

\* C33: extractFrames returns the frames extracted from the merged
\* timestamps, or, when there is none, the single fallback frame or, when
\* the fallback extraction fails too, no frame; it never raises, so the run
\* goes on to updateProgress(28).
C33_FallbackFrame ==
    [][\A r \in Slots :
         (run[r].pc = "extractFrames" /\ run'[r] # run[r]) =>
           LET paths == run'[r].framePaths
               fallback == <<"fallback", 0>>
           IN  /\ run'[r].pc = "p28"
               /\ \/ paths = <<>>
                  \/ paths = <<fallback>>
                  \/ Len(paths) > 0 /\ \A i \in 1..Len(paths) : paths[i][1] = "frame"
               /\ fallback \in disk'.frames <=> paths = <<fallback>>]_vars

\* A run of a video with a frame to sample completed with no frame: every
\* extraction and the fallback failed.
C33_Witness ==
    \E r \in Slots :
      /\ run[r].pc = "completed"
      /\ file.duration > 0
      /\ run[r].framePaths = <<>>
      /\ db.adult = 0

\* The run got past the thumbnail step without assigning thumbnailPath:
\* generateThumbnail rejected.
ThumbnailFailedIn(rn) ==
    /\ "thumbnailPath" \notin rn.touched
    /\ \E k \in 1..Len(rn.log) : rn.log[k].op = "emit" /\ rn.log[k].progress = 30

\* C34: when thumbnail generation failed in a run, first run or rerun, the
\* record's thumbnailPath is null when the run has ended.
C34_NoThumbnailNoPath ==
    \A r \in Slots :
      (Ended(run[r]) /\ ThumbnailFailedIn(run[r])) => db.thumbnailPath = NoText

\* ---------------------------------------------------------------------
\* The classification stage on score lists around the 0.7 threshold.

EdgeScores == {0, 4000, 7001, 10000}

InitWeight ==
    \E n \in 0..MaxScores :
      \E scores \in [1..n -> EdgeScores], languageScore \in {0, 1500} :
        /\ file = [present |-> TRUE, duration |-> n, pts |-> <<>>]
        /\ db = [NewVideo EXCEPT !.status = "processing", !.progress = 75,
                                 !.thumbnailPath = "thumbnail.jpg"]
        /\ disk = [dir |-> TRUE, frames |-> {<<"frame", i - 1>> : i \in 1..n},
                   audio |-> "none", thumbnail |-> TRUE]
        /\ io = NoSockets
        /\ api = NoRequest
        /\ run = [r \in Slots |-> IF r = 1 THEN AtClassify(scores, languageScore)
                                            ELSE NewRun]

SpecWeight == InitWeight /\ [][NextScore]_vars

\* C35: for frame scores in [0, 1], a highest score above 0.7 comes with a
\* persisted weighted adult score above 0.4, and, the language score not
\* flagging, the persisted classification is flagged exactly when the
\* weighted score exceeds 0.4 or at least two scores exceed 0.4: the test
\* of the maximum against 0.7 never decides the classification.
C35_MaxClauseRedundant ==
    \A r \in Slots :
      Persisted(run[r]) =>
        LET s == run[r].frameResults
        IN  /\ 10 * Highest(s) > 7 * Scale => 10 * db.adult > 4 * Scale
            /\ 100 * run[r].languageScore <= 15 * Scale =>
                 (db.classification = "flagged" <=>
                    \/ 10 * ExpectedNum(s) > 4 * Scale * ExpectedDen(s)
                    \/ Cardinality({i \in Indices(s) : 10 * s[i] > 4 * Scale}) >= 2)

\* One score just above 0.7 among five zeros: flagged, with a weighted
\* score above 0.4.
C35_Witness ==
    \E r \in Slots :
      /\ Persisted(run[r])
      /\ Len(run[r].frameResults) = 6
      /\ Highest(run[r].frameResults) = 7001
      /\ Cardinality({i \in Indices(run[r].frameResults) :
                        10 * run[r].frameResults[i] > 4 * Scale}) = 1
      /\ run[r].languageScore = 0
      /\ db.classification = "flagged"
      /\ 10 * db.adult > 4 * Scale

\* C36: a record whose persisted classification is safe has a persisted
\* sensitivityScore of at most 0.4 and a persisted language detail of at
\* most 0.15; a persisted score above 0.4 comes with flagged.
C36_SafeIsBelowThresholds ==
    db.classification = "safe" =>
      /\ db.score # NoScore
      /\ 10 * db.score <= 4 * Scale
      /\ 100 * db.language <= 15 * Scale

\* A safe record on both thresholds: score 0.4, language 0.15.
C36_Witness ==
    \E r \in Slots :
      /\ Persisted(run[r])
      /\ db.classification = "safe"
      /\ 10 * db.score = 4 * Scale
      /\ 100 * db.language = 15 * Scale

\* C37: with runs that do not overlap, in every reachable state the
\* record's processingError is non-null exactly when its processingStatus
\* is failed.
C37_ErrorIffFailed ==
    db.error # NoText <=> db.status = "failed"

\* A rerun has ended in failure: status failed with its message.
C37_Witness ==
    \E r \in Slots :
      /\ run[r].rerun
      /\ run[r].pc = "failed"
      /\ db.status = "failed"
      /\ db.error # NoText

\* The positions in a run's log of its events of the given kinds to a room.
EventsAt(r, kinds, room) ==
    {k \in 1..Len(run[r].log) :
       /\ run[r].log[k].op = "emit"
       /\ run[r].log[k].kind \in kinds
       /\ run[r].log[k].room = room}

\* C38: a run publishes at most one terminal event, video:complete or
\* video:error and never both, and no progress event after it.
C38_OneTerminalEvent ==
    \A r \in Slots : \A room \in {"video", "user"} :
      LET terminal == EventsAt(r, {"complete", "error"}, room)
      IN  /\ Cardinality(terminal) <= 1
          /\ \A t \in terminal : \A k \in EventsAt(r, {"progress"}, room) : k < t

\* The final save was rejected after progress 95 was published: the run
\* ended with video:error as its only terminal event.
C38_Witness ==
    \E r \in Slots :
      /\ run[r].pc = "failed"
      /\ \E k \in EventsAt(r, {"progress"}, "video") : run[r].log[k].progress = 95
      /\ Cardinality(EventsAt(r, {"error"}, "video")) = 1
      /\ Cardinality(EventsAt(r, {"error"}, "user")) = 1
      /\ EventsAt(r, {"complete"}, "video") = {}

\* C39 (as claimed): when a reprocess request arrived while an earlier run
\* was active, once both runs have ended a record with status completed is
\* classified safe or flagged, has a score and has no processingError.
C39_CompletedAfterOverlap ==
    (\A r \in Slots : Ended(run[r])) =>
      (db.status = "completed" =>
         /\ db.classification \in {"safe", "flagged"}
         /\ db.score # NoScore
         /\ db.error = NoText)

\* The copies of the event numbered n that a socket has received.
Copies(i, s, n) == {k \in 1..Len(i.received[s]) : i.received[s][k].n = n}

\* C40: a published event is delivered once to every socket that is in
\* only one of its two target groups (the video's group, the uploader's
\* group), twice to a socket that is in both, and to no other socket.
C40_OncePerGroup ==
    [][io'.emitted # io.emitted =>
         \A s \in Sockets :
           LET inVideo == s \in io.connected /\ "v1" \in io.asked[s]
               inUser == s \in io.connected /\ io.user[s] = "owner"
               expected == (IF inVideo THEN 1 ELSE 0) + (IF inUser THEN 1 ELSE 0)
           IN  /\ Cardinality(Copies(io', s, io'.emitted)) = expected
               /\ Len(io'.received[s]) = Len(io.received[s]) + expected]_vars

\* The same event reached the uploader's subscribed socket twice and a
\* viewer's subscribed socket once.
C40_Witness ==
    \E s \in Sockets, t \in Sockets :
      /\ io.user[s] = "owner"
      /\ io.user[t] = "viewer"
      /\ io.emitted >= 1
      /\ Cardinality(Copies(io, s, io.emitted)) = 2
      /\ Cardinality(Copies(io, t, io.emitted)) = 1

====
